---- MODULE Spec2Model ----
(***************************************************************************)
(* A model of src/edf_converter.py: the EDFConverter class (load an EDF    *)
(* recording through mne, query it, export it as CSV / JSON / .npz) and    *)
(* the command-line entry point main().                                    *)
(*                                                                         *)
(* The decoder itself is the mne library.  Its three entry points the      *)
(* code calls are modelled by what they return to the code:                *)
(*   mne.io.read_raw_edf(preload=True)  a Raw whose data is one            *)
(*       rectangular matrix: channels recorded at a lower rate are         *)
(*       upsampled to the highest rate of the file;                        *)
(*   mne.pick_channels(ch_names, include)  with the default ordered=True   *)
(*       (mne 1.7 and later): the indices in the order of include, and a   *)
(*       ValueError listing the names of include that are not in ch_names; *)
(*   Raw.get_data(picks)  the rows of the matrix in the order of picks.    *)
(*                                                                         *)
(* A session (Spec) constructs one converter and then calls its methods in *)
(* any order; each call is recorded in last (arguments, exception, value   *)
(* returned, file written, lines printed) until it returns to its caller.  *)
(* files holds the paths of the output files written so far.  A run of     *)
(* main (MainSpec) goes through the same operators.  plot only opens mne's *)
(* interactive viewer and is left out.                                     *)
(*                                                                         *)
(* Python values: an Optional[List[str]] is [some, val]; an exception is   *)
(* a record [type, text, names, valid] (names: the labels the message      *)
(* names, valid: the labels it lists as available); a 2-D array is a       *)
(* sequence of rows.  Times are counted in sample periods (times[i] is     *)
(* i-1, the second being (i-1)/sfreq).                                     *)
(***************************************************************************)
EXTENDS Integers, Sequences, FiniteSets, TLC

VARIABLES edf, cwd, pc, self, last, files, decodes, argv, mpc, exit_status, stdout

vars == <<edf, cwd, pc, self, last, files, decodes, argv, mpc, exit_status, stdout>>

(* ------------------------------ bounds --------------------------------- *)

\* channels of the recording on disk
MaxCh == 2
\* samples a channel contributes to one data record
MaxSpr == 2
\* data records of the recording
MaxRec == 2
\* labels in a channel filter
MaxFilterLen == 2

(* --------------------------- Python values ----------------------------- *)

None == [none |-> TRUE]

Some(v) == [some |-> TRUE, val |-> v]

\* channels=None
NoChannels == [some |-> FALSE, val |-> <<>>]

\* no file written
Nothing == [some |-> FALSE, val |-> None]

NoErr == [type |-> "none", text |-> "", names |-> <<>>, valid |-> <<>>]

Err(type, text, names, valid) == [type |-> type, text |-> text, names |-> names, valid |-> valid]

\* the truth value Python gives an Optional[List[str]]: None and [] are falsy
Truthy(channels) == channels.some /\ Len(channels.val) > 0

InSeq(x, s) == \E k \in 1..Len(s) : s[k] = x

\* list.index(x): the first position of x
IndexOf(s, x) == CHOOSE k \in 1..Len(s) : s[k] = x /\ \A j \in 1..(k-1) : s[j] # x

Range(s) == {s[k] : k \in 1..Len(s)}

SeqMax(s) == CHOOSE m \in Range(s) : \A k \in 1..Len(s) : s[k] <= m

(* ------------------------------- paths --------------------------------- *)

\* a path: its directory, the dot-separated parts of its name before the last
\* suffix, and the last suffix ("" when the name has none)
APath(dir, stem, ext) == [dir |-> dir, stem |-> stem, ext |-> ext]

\* the recording, a file that is no EDF recording, and a path that does not resolve
RecPath == APath("data", <<"rec">>, "edf")

BadPath == APath("data", <<"bad">>, "edf")

GonePath == APath("data", <<"gone">>, "edf")

InputPaths == {RecPath, BadPath, GonePath}

\* Path.exists()
Exists(p) == p \in {RecPath, BadPath}

\* Path(p).name
PathName(p) == <<p.stem, p.ext>>

\* open(p, 'w') succeeds in every directory but the read-only one
Writable(p) == p.dir # "ro"

\* the file numpy.savez_compressed writes for a path: ".npz" is appended to a
\* name that does not end with it
NpzPath(p) ==
    IF p.ext = "npz" THEN p
    ELSE IF p.ext = "" THEN [p EXCEPT !.ext = "npz"]
    ELSE APath(p.dir, Append(p.stem, p.ext), "npz")

(* ------------------------- the recording on disk ----------------------- *)

ChannelLabels == <<"A", "B", "C", "D">>

\* the calibrated samples channel c holds on disk, n of them
Signal(c, n) == [j \in 1..n |-> 10 * c + j]

\* a recording: its channel labels in file order, each channel's samples per
\* data record, and the number of data records (each lasting one second)
Recordings ==
    UNION { { [labels |-> SubSeq(ChannelLabels, 1, n), spr |-> s, nrec |-> r] :
                s \in [1..n -> 1..MaxSpr], r \in 1..MaxRec } : n \in 1..MaxCh }

\* mne's upsampling of a channel of m samples to n >= m samples.  The length of
\* the result is mne's; its values stand for mne's interpolation, each taken
\* from the sample of the channel at or before the same instant
Resample(row, n) == [i \in 1..n |-> row[((i - 1) * Len(row)) \div n + 1]]

(* ------------------------------ mne ------------------------------------ *)

\* Raw.n_times of a recording: the highest samples-per-record times the records
NTimes(f) == SeqMax(f.spr) * f.nrec

\* the Raw that read_raw_edf(preload=True) builds from a recording
RawOf(f) ==
    [ch_names |-> f.labels,
     data |-> [c \in 1..Len(f.labels) |-> Resample(Signal(c, f.spr[c] * f.nrec), NTimes(f))],
     times |-> [i \in 1..NTimes(f) |-> i - 1],
     sfreq |-> SeqMax(f.spr),
     meas_date |-> "2001-01-01"]

\* mne.io.read_raw_edf(path, preload=True): the Raw of the recording, or the
\* reader's exception for a file that is no EDF recording
read_raw_edf(f, p) ==
    IF p = RecPath
    THEN [raised |-> NoErr, raw |-> RawOf(f)]
    ELSE [raised |-> Err("Exception", "not an EDF file", <<>>, <<>>), raw |-> None]

\* pick_channels as with ordered=False: the indices sorted into the order of
\* ch_names, each once, and the names that are not in ch_names skipped
pick_channels_unordered(ch_names, include) ==
    LET inc == IF Len(include) = 0 THEN ch_names ELSE include
    IN [raised |-> NoErr,
        sel |-> SelectSeq([k \in 1..Len(ch_names) |-> k], LAMBDA k : InSeq(ch_names[k], inc))]

\* pick_channels that keeps the order of include but skips the names that are
\* not in ch_names
pick_channels_lenient(ch_names, include) ==
    LET inc == IF Len(include) = 0 THEN ch_names ELSE include
        present == SelectSeq(inc, LAMBDA n : InSeq(n, ch_names))
    IN [raised |-> NoErr, sel |-> [k \in 1..Len(present) |-> IndexOf(ch_names, present[k])]]

\* mne.pick_channels(ch_names, include), ordered=True: the index of each name of
\* include, in the order of include; names not in ch_names raise ValueError
pick_channels(ch_names, include) ==
    LET inc == IF Len(include) = 0 THEN ch_names ELSE include
        missing == SelectSeq(inc, LAMBDA n : ~InSeq(n, ch_names))
    IN IF Len(missing) > 0
       THEN [raised |-> Err("ValueError", "Missing channels from ch_names required by include", missing, <<>>),
             sel |-> <<>>]
       ELSE [raised |-> NoErr, sel |-> [k \in 1..Len(inc) |-> IndexOf(ch_names, inc[k])]]

\* Raw.get_data(picks): the picked rows, in the order of picks; no pick is an error
raw_get_data(raw, picks) ==
    IF Len(picks) = 0
    THEN [raised |-> Err("ValueError", "No appropriate channels found for the given picks", <<>>, <<>>),
          data |-> <<>>]
    ELSE [raised |-> NoErr, data |-> [k \in 1..Len(picks) |-> raw.data[picks[k]]]]

(* --------------------------- EDFConverter ------------------------------ *)

NoConverter == [none |-> TRUE]

\* what a call leaves behind: the exception it raised (or NoErr), the value it
\* returned, the converter after it, the output files after it, the file it
\* wrote (path and content) and the lines it printed
Outcome(raised, ret, obj, fs, wrote, printed) ==
    [raised |-> raised, ret |-> ret, self |-> obj, files |-> fs, wrote |-> wrote, printed |-> printed]

\* __init__ without the test of Path.exists()
EDFConverter_nocheck(f, filepath) ==
    LET r == read_raw_edf(f, filepath)
    IN IF r.raised # NoErr
       THEN [raised |-> Err("ValueError", "Failed to read EDF file", <<>>, <<>>),
             self |-> NoConverter, reads |-> 1]
       ELSE [raised |-> NoErr, self |-> [filepath |-> filepath, raw |-> r.raw], reads |-> 1]

\* EDFConverter(filepath): the converter, or the exception of __init__; reads is
\* the number of calls of read_raw_edf it made
EDFConverter(f, filepath) ==
    IF ~Exists(filepath)
    THEN [raised |-> Err("FileNotFoundError", "EDF file not found", <<>>, <<>>),
          self |-> NoConverter, reads |-> 0]
    ELSE LET r == read_raw_edf(f, filepath)
         IN IF r.raised # NoErr
            THEN [raised |-> Err("ValueError", "Failed to read EDF file", <<>>, <<>>),
                  self |-> NoConverter, reads |-> 1]
            ELSE [raised |-> NoErr, self |-> [filepath |-> filepath, raw |-> r.raw], reads |-> 1]

\* the dictionary get_info builds
InfoOf(obj) ==
    [filename |-> PathName(obj.filepath),
     n_channels |-> Len(obj.raw.ch_names),
     channel_names |-> obj.raw.ch_names,
     sampling_rate |-> obj.raw.sfreq,
     duration_seconds |-> obj.raw.times[Len(obj.raw.times)],
     n_samples |-> Len(obj.raw.times),
     measurement_date |-> obj.raw.meas_date]

get_info(obj, fs) == Outcome(NoErr, InfoOf(obj), obj, fs, Nothing, <<>>)

\* the (data, times) of get_data, or the exception picking raised
DataOf(obj, channels) ==
    IF Truthy(channels)
    THEN LET p == pick_channels(obj.raw.ch_names, channels.val)
             d == raw_get_data(obj.raw, p.sel)
         IN IF p.raised # NoErr THEN [raised |-> p.raised, data |-> <<>>, times |-> <<>>]
            ELSE IF d.raised # NoErr THEN [raised |-> d.raised, data |-> <<>>, times |-> <<>>]
            ELSE [raised |-> NoErr, data |-> d.data, times |-> obj.raw.times]
    ELSE [raised |-> NoErr, data |-> obj.raw.data, times |-> obj.raw.times]

\* get_data that picks the channels in place (Raw.pick) instead of copying them
get_data_picking(obj, fs, channels) ==
    LET d == DataOf(obj, channels)
    IN Outcome(d.raised, IF d.raised = NoErr THEN [data |-> d.data, times |-> d.times] ELSE None,
               IF d.raised = NoErr /\ Truthy(channels)
               THEN [obj EXCEPT !.raw.ch_names = channels.val, !.raw.data = d.data]
               ELSE obj,
               fs, Nothing, <<>>)

get_data(obj, fs, channels) ==
    LET d == DataOf(obj, channels)
    IN Outcome(d.raised, IF d.raised = NoErr THEN [data |-> d.data, times |-> d.times] ELSE None,
               obj, fs, Nothing, <<>>)

\* exporters that label the columns with the recording's names whatever the filter
ExportNames_recording(obj, channels) == obj.raw.ch_names

\* the labels an exporter writes: the filter as given, or every channel
ExportNames(obj, channels) == IF Truthy(channels) THEN channels.val ELSE obj.raw.ch_names

\* data[:, i]
Column(data, i) == [k \in 1..Len(data) |-> data[k][i]]


\* the keys of a dict filled in the order of s: each key where it first occurs
RECURSIVE FirstOccurrences(_)
FirstOccurrences(s) ==
    IF s = <<>> THEN <<>>
    ELSE LET h == FirstOccurrences(SubSeq(s, 1, Len(s) - 1))
         IN IF InSeq(s[Len(s)], h) THEN h ELSE Append(h, s[Len(s)])

\* the last position of x in s: a later dict assignment replaces an earlier one
LastIndex(s, x) == CHOOSE k \in 1..Len(s) : s[k] = x /\ \A j \in (k+1)..Len(s) : s[j] # x

to_csv(obj, fs, output_path, channels, include_time) ==
    LET g == get_data(obj, fs, channels)
        ch_names == ExportNames(g.self, channels)
        header == (IF include_time THEN <<"Time">> ELSE <<>>) \o ch_names
        rows == [i \in 1..Len(g.ret.times) |->
                    [time |-> IF include_time THEN <<g.ret.times[i]>> ELSE <<>>,
                     values |-> Column(g.ret.data, i)]]
    IN IF g.raised # NoErr THEN g
       ELSE IF ~Writable(output_path)
       THEN Outcome(Err("OSError", "cannot open", <<>>, <<>>), None, g.self, fs, Nothing, <<>>)
       ELSE Outcome(NoErr, None, g.self, fs \cup {output_path},
                    Some([path |-> output_path,
                          content |-> [kind |-> "csv", header |-> header, rows |-> rows]]),
                    <<"CSV file saved to">>)

to_json(obj, fs, output_path, channels, include_metadata) ==
    LET g == get_data(obj, fs, channels)
        ch_names == ExportNames(g.self, channels)
        data == [times |-> g.ret.times,
                 channels |-> [keys |-> FirstOccurrences(ch_names),
                               at |-> [l \in Range(ch_names) |->
                                          g.ret.data[LastIndex(ch_names, l)]]]]
        output == IF include_metadata THEN [metadata |-> InfoOf(g.self), data |-> data]
                  ELSE [data |-> data]
    IN IF g.raised # NoErr THEN g
       ELSE IF Len(ch_names) > Len(g.ret.data)
       THEN Outcome(Err("IndexError", "index out of bounds", <<>>, <<>>), None, g.self, fs,
                    Nothing, <<>>)
       ELSE IF ~Writable(output_path)
       THEN Outcome(Err("OSError", "cannot open", <<>>, <<>>), None, g.self, fs, Nothing, <<>>)
       ELSE Outcome(NoErr, None, g.self, fs \cup {output_path},
                    Some([path |-> output_path, content |-> [kind |-> "json", object |-> output]]),
                    <<"JSON file saved to">>)

to_numpy(obj, fs, output_path, channels) ==
    LET g == get_data(obj, fs, channels)
        ch_names == ExportNames(g.self, channels)
        arrays == [data |-> g.ret.data, times |-> g.ret.times, channel_names |-> ch_names,
                   sampling_rate |-> g.self.raw.sfreq]
    IN IF g.raised # NoErr THEN g
       ELSE IF ~Writable(NpzPath(output_path))
       THEN Outcome(Err("OSError", "cannot open", <<>>, <<>>), None, g.self, fs, Nothing, <<>>)
       ELSE Outcome(NoErr, None, g.self, fs \cup {NpzPath(output_path)},
                    Some([path |-> NpzPath(output_path),
                          content |-> [kind |-> "npz", arrays |-> arrays]]),
                    <<"NumPy file saved to">>)

\* get_channel_data without its own test of the name
get_channel_data_nocheck(obj, fs, channel_name) ==
    LET g == get_data(obj, fs, [some |-> TRUE, val |-> <<channel_name>>])
    IN IF g.raised # NoErr THEN g
       ELSE [g EXCEPT !.ret = [data |-> g.ret.data[1], times |-> g.ret.times]]

get_channel_data(obj, fs, channel_name) ==
    IF ~InSeq(channel_name, obj.raw.ch_names)
    THEN Outcome(Err("ValueError", "Channel not found. Available channels", <<channel_name>>,
                     obj.raw.ch_names), None, obj, fs, Nothing, <<>>)
    ELSE LET g == get_data(obj, fs, [some |-> TRUE, val |-> <<channel_name>>])
         IN IF g.raised # NoErr THEN g
            ELSE [g EXCEPT !.ret = [data |-> g.ret.data[1], times |-> g.ret.times]]

(* ------------------------- a session of calls -------------------------- *)

\* the labels a caller may ask for: those a recording of MaxCh channels carries
\* (a shorter recording lacks the last of them)
Universe == Range(SubSeq(ChannelLabels, 1, MaxCh))

LabelLists == UNION {[1..n -> Universe] : n \in 0..MaxFilterLen}

Filters == {NoChannels} \cup {[some |-> TRUE, val |-> s] : s \in LabelLists}

OutPaths == {APath("work", <<"out">>, ""), APath("ro", <<"out">>, "")}

NoCall == [op |-> "none"]

\* the call just made: its name and arguments, and what it left behind
Call(op, path, channels, flag, name, out) ==
    [op |-> op, path |-> path, channels |-> channels, flag |-> flag, name |-> name,
     raised |-> out.raised, ret |-> out.ret, wrote |-> out.wrote, printed |-> out.printed]

Idle == /\ argv = <<>>
        /\ mpc = "lib"
        /\ exit_status = 0
        /\ stdout = <<>>

Init == /\ edf \in Recordings
        /\ cwd = "work"
        /\ pc = "new"
        /\ self = NoConverter
        /\ last = NoCall
        /\ files = {}
        /\ decodes = 0
        /\ Idle

Construct(filepath) ==
    /\ pc = "new"
    /\ LET r == EDFConverter(edf, filepath)
       IN /\ self' = r.self
          /\ decodes' = decodes + r.reads
          /\ pc' = IF r.raised = NoErr THEN "ready" ELSE "raised"
          /\ last' = [op |-> "__init__", path |-> filepath, raised |-> r.raised]
    /\ UNCHANGED <<edf, cwd, files, argv, mpc, exit_status, stdout>>

\* a method call on the converter: the converter and the files it leaves, and
\* the record of the call
Method(c) ==
    /\ pc = "ready"
    /\ pc' = "called"
    /\ last' = c
    /\ UNCHANGED <<edf, cwd, decodes, argv, mpc, exit_status, stdout>>

GetInfo ==
    LET out == get_info(self, files)
    IN /\ Method(Call("get_info", None, NoChannels, FALSE, "", out))
       /\ self' = out.self
       /\ files' = out.files

GetData(channels) ==
    LET out == get_data(self, files, channels)
    IN /\ Method(Call("get_data", None, channels, FALSE, "", out))
       /\ self' = out.self
       /\ files' = out.files

GetChannelData(channel_name) ==
    LET out == get_channel_data(self, files, channel_name)
    IN /\ Method(Call("get_channel_data", None, NoChannels, FALSE, channel_name, out))
       /\ self' = out.self
       /\ files' = out.files

ToCsv(output_path, channels, include_time) ==
    LET out == to_csv(self, files, output_path, channels, include_time)
    IN /\ Method(Call("to_csv", output_path, channels, include_time, "", out))
       /\ self' = out.self
       /\ files' = out.files

ToJson(output_path, channels, include_metadata) ==
    LET out == to_json(self, files, output_path, channels, include_metadata)
    IN /\ Method(Call("to_json", output_path, channels, include_metadata, "", out))
       /\ self' = out.self
       /\ files' = out.files

ToNumpy(output_path, channels) ==
    LET out == to_numpy(self, files, output_path, channels)
    IN /\ Method(Call("to_numpy", output_path, channels, FALSE, "", out))
       /\ self' = out.self
       /\ files' = out.files

\* the call is over: its caller has the result (or the exception) and may call again
Return ==
    /\ pc = "called"
    /\ pc' = "ready"
    /\ last' = NoCall
    /\ UNCHANGED <<edf, cwd, self, files, decodes, argv, mpc, exit_status, stdout>>

Next ==
    \/ \E p \in InputPaths : Construct(p)
    \/ GetInfo
    \/ \E ch \in Filters : GetData(ch)
    \/ \E l \in Universe : GetChannelData(l)
    \/ \E p \in OutPaths, ch \in Filters, t \in BOOLEAN : ToCsv(p, ch, t)
    \/ \E p \in OutPaths, ch \in Filters, m \in BOOLEAN : ToJson(p, ch, m)
    \/ \E p \in OutPaths, ch \in Filters : ToNumpy(p, ch)
    \/ Return

Spec == Init /\ [][Next]_vars

(* ------------------------------- main ---------------------------------- *)

Script == "edf_converter.py"

FormatWords == {"info", "csv", "json", "numpy", "npz", "CSV", "xml"}

\* str.lower() on the format words
Lower(w) == IF w = "CSV" THEN "csv" ELSE w

\* sys.argv: the script, then the input file, a format and a further word, if given
Argvs ==
    {<<Script>>}
    \cup {<<Script, p>> : p \in InputPaths}
    \cup {<<Script, p, w>> : p \in InputPaths, w \in FormatWords}
    \cup {<<Script, p, w, "more">> : p \in InputPaths, w \in FormatWords}

\* in TLA+ sequences start at 1: argv[2] is sys.argv[1]
input_file == argv[2]

output_format == IF Len(argv) > 2 THEN Lower(argv[3]) ELSE "info"

\* Path(input_file).stem + suffix, a name relative to the working directory
OutputFile(ext) == APath(cwd, input_file.stem, ext)

MainInit ==
    /\ edf \in Recordings
    /\ cwd \in {"work", "ro"}
    /\ pc = "new"
    /\ self = NoConverter
    /\ last = NoCall
    /\ files = {}
    /\ decodes = 0
    /\ argv \in Argvs
    /\ mpc = "start"
    /\ exit_status = 0
    /\ stdout = <<>>

\* sys.exit(1)
Exit1(lines) ==
    /\ stdout' = stdout \o lines
    /\ exit_status' = 1
    /\ mpc' = "exited"

MainUsage ==
    /\ mpc = "start"
    /\ Len(argv) < 2
    /\ Exit1(<<"Usage", "Formats", "Example">>)
    /\ UNCHANGED <<edf, cwd, pc, self, last, files, decodes, argv>>

MainLoad ==
    /\ mpc = "start"
    /\ Len(argv) >= 2
    /\ LET r == EDFConverter(edf, input_file)
       IN /\ decodes' = decodes + r.reads
          /\ last' = [op |-> "__init__", path |-> input_file, raised |-> r.raised]
          /\ IF r.raised = NoErr
             THEN /\ self' = r.self
                  /\ pc' = "ready"
                  /\ mpc' = "loaded"
                  /\ UNCHANGED <<stdout, exit_status>>
             ELSE /\ Exit1(<<"Error">>)
                  /\ pc' = "raised"
                  /\ UNCHANGED self
    /\ UNCHANGED <<edf, cwd, files, argv>>

\* one branch of main's dispatch: the call, then either its output and a normal
\* return, or the handler of the exception it raised
MainCall(c, out, lines) ==
    /\ mpc = "loaded"
    /\ last' = c
    /\ self' = out.self
    /\ files' = out.files
    /\ pc' = "called"
    /\ IF out.raised = NoErr
       THEN /\ stdout' = stdout \o lines \o out.printed
            /\ mpc' = "returned"
            /\ UNCHANGED exit_status
       ELSE Exit1(<<"Error">>)
    /\ UNCHANGED <<edf, cwd, decodes, argv>>

MainInfo ==
    /\ output_format = "info"
    /\ LET out == get_info(self, files)
       IN MainCall(Call("get_info", None, NoChannels, FALSE, "", out), out,
                   <<"EDF File Information:", "info">>)

MainCsv ==
    /\ output_format = "csv"
    /\ LET out == to_csv(self, files, OutputFile("csv"), NoChannels, TRUE)
       IN MainCall(Call("to_csv", OutputFile("csv"), NoChannels, TRUE, "", out), out, <<>>)

MainJson ==
    /\ output_format = "json"
    /\ LET out == to_json(self, files, OutputFile("json"), NoChannels, TRUE)
       IN MainCall(Call("to_json", OutputFile("json"), NoChannels, TRUE, "", out), out, <<>>)

MainNumpy ==
    /\ output_format \in {"numpy", "npz"}
    /\ LET out == to_numpy(self, files, OutputFile("npz"), NoChannels)
       IN MainCall(Call("to_numpy", OutputFile("npz"), NoChannels, FALSE, "", out), out, <<>>)

\* the unknown-format branch without its sys.exit(1)
MainUnknown_noexit ==
    /\ mpc = "loaded"
    /\ output_format \notin {"info", "csv", "json", "numpy", "npz"}
    /\ stdout' = stdout \o <<"Unknown format", "Available formats">>
    /\ mpc' = "returned"
    /\ UNCHANGED <<edf, cwd, pc, self, last, files, decodes, argv, exit_status>>

MainUnknown ==
    /\ mpc = "loaded"
    /\ output_format \notin {"info", "csv", "json", "numpy", "npz"}
    /\ Exit1(<<"Unknown format", "Available formats">>)
    /\ UNCHANGED <<edf, cwd, pc, self, last, files, decodes, argv>>

MainNext ==
    \/ MainUsage
    \/ MainLoad
    \/ MainInfo
    \/ MainCsv
    \/ MainJson
    \/ MainNumpy
    \/ MainUnknown

\* main runs to its end: nothing in it waits
MainSpec == MainInit /\ [][MainNext]_vars /\ WF_vars(MainNext)

(* ------------------------------ properties ----------------------------- *)

Exporters == {"to_csv", "to_json", "to_numpy"}

Distinct(s) == \A i, j \in 1..Len(s) : s[i] = s[j] => i = j

\* every label of s is a channel of the loaded recording
Known(s) == \A k \in 1..Len(s) : InSeq(s[k], self.raw.ch_names)

\* the samples of the channel of the loaded recording that carries the label
ChannelRow(l) == self.raw.data[IndexOf(self.raw.ch_names, l)]

Content == last.wrote.val.content

\* C1: an exporter called with a filter of distinct labels, all of them channels
\* of the recording, writes (to a writable path) exactly those channels in the
\* caller's order, each label with the samples of the channel that carries it.
C1_FilterOrder ==
    (pc = "called" /\ last.op \in Exporters /\ Truthy(last.channels)
        /\ Distinct(last.channels.val) /\ Known(last.channels.val)) =>
       LET want == last.channels.val
           skip == IF last.flag THEN 1 ELSE 0
       IN /\ Writable(last.path) => last.raised = NoErr /\ last.wrote.some
          /\ last.wrote.some =>
               CASE last.op = "to_csv" ->
                      /\ SubSeq(Content.header, skip + 1, Len(Content.header)) = want
                      /\ \A i \in 1..Len(Content.rows) :
                            Content.rows[i].values = [k \in 1..Len(want) |-> ChannelRow(want[k])[i]]
                 [] last.op = "to_json" ->
                      /\ Content.object.data.channels.keys = want
                      /\ \A l \in Range(want) : Content.object.data.channels.at[l] = ChannelRow(l)
                 [] last.op = "to_numpy" ->
                      /\ Content.arrays.channel_names = want
                      /\ Content.arrays.data = [k \in 1..Len(want) |-> ChannelRow(want[k])]

\* a CSV export of the channels B, A (not the recording's order A, B)
C1_Witness ==
    /\ pc = "called" /\ last.op = "to_csv" /\ last.wrote.some
    /\ last.channels = [some |-> TRUE, val |-> <<"B", "A">>]

\* C2: get_data and the exporters, called with a filter that holds a label the
\* recording does not carry, raise a ValueError whose message names every such
\* label, return nothing and write no file, whatever the other labels are.
C2_UnknownLabelFails ==
    (pc = "called" /\ last.op \in Exporters \cup {"get_data"} /\ Truthy(last.channels)
        /\ ~Known(last.channels.val)) =>
       /\ last.raised.type = "ValueError"
       /\ \A k \in 1..Len(last.channels.val) :
             ~InSeq(last.channels.val[k], self.raw.ch_names)
                => InSeq(last.channels.val[k], last.raised.names)
       /\ last.ret = None
       /\ ~last.wrote.some
       /\ last.printed = <<>>

\* a CSV export asked for the channel A, which the recording has, and B, which it lacks
C2_Witness ==
    /\ pc = "called" /\ last.op = "to_csv" /\ Writable(last.path)
    /\ last.channels = [some |-> TRUE, val |-> <<"A", "B">>]
    /\ self.raw.ch_names = <<"A">>
    /\ last.raised.names = <<"B">>

\* C3: get_data without a filter returns each channel with its own sample count,
\* samples_per_record times the data records, and a time axis as long as the
\* longest channel.
C3_OwnSampleCount ==
    (pc = "called" /\ last.op = "get_data" /\ ~last.channels.some /\ last.raised = NoErr) =>
       /\ \A c \in 1..Len(edf.labels) : Len(last.ret.data[c]) = edf.spr[c] * edf.nrec
       /\ Len(last.ret.times) = NTimes(edf)

\* the recording a converter holds is whole: every channel of the file, each
\* with a sample for every point of the time axis
FullyDecoded ==
    /\ self.raw # None
    /\ self.raw.ch_names = edf.labels
    /\ Len(self.raw.data) = Len(edf.labels)
    /\ Len(self.raw.times) = NTimes(edf)
    /\ \A c \in 1..Len(self.raw.data) : Len(self.raw.data[c]) = Len(self.raw.times)

\* C4: the constructor returns a converter that holds the whole recording, or it
\* raises and no converter exists; a path that does not resolve raises
\* FileNotFoundError before read_raw_edf is called, a file that cannot be
\* decoded raises ValueError.
C4_LoadAllOrNothing ==
    /\ pc \in {"new", "raised"} => self = NoConverter
    /\ pc \in {"ready", "called"} => self # NoConverter /\ FullyDecoded
    /\ last.op = "__init__" =>
          /\ last.raised = NoErr <=> pc = "ready"
          /\ ~Exists(last.path) => last.raised.type = "FileNotFoundError" /\ decodes = 0
          /\ last.path = BadPath => last.raised.type = "ValueError" /\ decodes = 1

\* the constructor was given a file that is no EDF recording
C4_Witness ==
    /\ pc = "raised" /\ last.op = "__init__" /\ last.path = BadPath
    /\ last.raised.type = "ValueError" /\ self = NoConverter

\* the converter as it is directly after loading
Loaded == [filepath |-> RecPath, raw |-> RawOf(edf)]

\* C5: once constructed, the converter is the one the load produced, through
\* every call, failed exports included; the file is read once; and get_data
\* gives what it would have given directly after loading.
C5_RecordingUnchanged ==
    /\ [](pc \in {"ready", "called"} =>
            /\ self = Loaded
            /\ decodes = 1
            /\ (pc = "called" /\ last.op = "get_data") =>
                  /\ last.raised = get_data(Loaded, {}, last.channels).raised
                  /\ last.ret = get_data(Loaded, {}, last.channels).ret)
    /\ [][(pc \in {"ready", "called"}) => (self' = self /\ decodes' = decodes)]_vars

\* an export that failed, called after an export that wrote its file
C5_Witness ==
    /\ pc = "called" /\ last.op = "to_json" /\ last.raised # NoErr
    /\ files # {}

\* C6: get_channel_data raises a ValueError that names the label and lists the
\* recording's labels when the label is not a channel, and otherwise returns
\* the samples of that channel and the time axis.
C6_ChannelData ==
    (pc = "called" /\ last.op = "get_channel_data") =>
       IF InSeq(last.name, self.raw.ch_names)
       THEN /\ last.raised = NoErr
            /\ last.ret = [data |-> ChannelRow(last.name), times |-> self.raw.times]
       ELSE /\ last.raised.type = "ValueError"
            /\ last.raised.names = <<last.name>>
            /\ last.raised.valid = self.raw.ch_names
            /\ last.ret = None

\* get_channel_data asked for a label the recording lacks
C6_Witness ==
    /\ pc = "called" /\ last.op = "get_channel_data"
    /\ ~InSeq(last.name, self.raw.ch_names)
    /\ last.raised.valid = self.raw.ch_names

\* C7: a to_csv call that does not raise writes a header of 'Time' (iff
\* include_time) and the exported labels, then one row per point of the time
\* axis, each with as many fields as the header.
C7_CsvShape ==
    (pc = "called" /\ last.op = "to_csv") =>
       /\ last.wrote.some <=> last.raised = NoErr
       /\ last.raised = NoErr =>
             /\ Content.kind = "csv"
             /\ Content.header = (IF last.flag THEN <<"Time">> ELSE <<>>)
                                    \o ExportNames(self, last.channels)
             /\ Len(Content.rows) = Len(self.raw.times)
             /\ \A i \in 1..Len(Content.rows) :
                   /\ Content.rows[i].time = IF last.flag THEN <<self.raw.times[i]>> ELSE <<>>
                   /\ Len(Content.rows[i].time) + Len(Content.rows[i].values) = Len(Content.header)

\* a CSV written without the time column, with a filter, for more than one time point
C7_Witness ==
    /\ pc = "called" /\ last.op = "to_csv" /\ last.wrote.some
    /\ ~last.flag /\ Truthy(last.channels)
    /\ Len(Content.rows) > 1

\* C8: the archive to_numpy writes holds one named array per exported channel,
\* a times array and a sampling_rate scalar.
C8_NamedArrays ==
    (pc = "called" /\ last.op = "to_numpy" /\ last.wrote.some) =>
       /\ {"times", "sampling_rate"} \subseteq DOMAIN Content.arrays
       /\ Range(ExportNames(self, last.channels)) \subseteq DOMAIN Content.arrays

\* C9 as stated: the object to_json writes has 'metadata' iff include_metadata,
\* and 'data' with 'times' and 'channels'; 'channels' has as many entries as
\* labels were exported, each as long as 'times'.
C9_EntryPerRequested ==
    (pc = "called" /\ last.op = "to_json" /\ last.wrote.some) =>
       LET o == Content.object
       IN /\ ("metadata" \in DOMAIN o) <=> last.flag
          /\ "data" \in DOMAIN o
          /\ {"times", "channels"} \subseteq DOMAIN o.data
          /\ Len(o.data.channels.keys) = Len(ExportNames(self, last.channels))
          /\ \A l \in Range(o.data.channels.keys) :
                Len(o.data.channels.at[l]) = Len(o.data.times)

\* C9 amended: as above, but 'channels' has one entry per distinct exported
\* label, in the order the labels first occur.
C9_EntryPerDistinct ==
    (pc = "called" /\ last.op = "to_json") =>
       /\ last.wrote.some <=> last.raised = NoErr
       /\ last.raised = NoErr =>
            LET o == Content.object
                names == IF Truthy(last.channels) THEN last.channels.val ELSE self.raw.ch_names
            IN /\ ("metadata" \in DOMAIN o) <=> last.flag
               /\ "data" \in DOMAIN o
               /\ {"times", "channels"} \subseteq DOMAIN o.data
               /\ Distinct(o.data.channels.keys)
               /\ Range(o.data.channels.keys) = Range(names)
               /\ DOMAIN o.data.channels.at = Range(names)
               /\ Len(o.data.channels.keys) = Cardinality(Range(names))
               /\ o.data.times = self.raw.times
               /\ \A l \in Range(o.data.channels.keys) :
                     Len(o.data.channels.at[l]) = Len(o.data.times)

\* a JSON export asked for the same label twice
C9_Witness ==
    /\ pc = "called" /\ last.op = "to_json" /\ last.wrote.some
    /\ Truthy(last.channels) /\ ~Distinct(last.channels.val)
    /\ Len(Content.object.data.channels.keys) = 1

Terminated == mpc \in {"returned", "exited"}

KnownFormat == output_format \in {"info", "csv", "json", "numpy", "npz"}

\* the one output of a run that returns: the summary, or the file of the format
OneOutput ==
    \/ /\ output_format = "info"
       /\ InSeq("info", stdout)
       /\ files = {}
    \/ /\ ~InSeq("info", stdout)
       /\ \E ext \in {"csv", "json", "npz"} :
             /\ output_format \in (IF ext = "npz" THEN {"numpy", "npz"} ELSE {ext})
             /\ files = {OutputFile(ext)}
             /\ last.wrote.some /\ last.wrote.val.path = OutputFile(ext)

\* C10: every run of main ends, either returning after exactly one output (the
\* summary printed, or the one file <input stem>.csv / .json / .npz written) or
\* with exit status 1; a missing argument, an unknown format and any exception
\* of loading or exporting end with exit status 1, the first two without a file.
C10_MainEnds ==
    /\ [](mpc = "returned" => exit_status = 0 /\ Len(argv) >= 2 /\ KnownFormat /\ OneOutput)
    /\ [](mpc = "exited" => exit_status = 1)
    /\ [](~Terminated => exit_status = 0 /\ files = {} /\ stdout = <<>>)
    /\ []((Terminated /\ (Len(argv) < 2 \/ ~KnownFormat)) => mpc = "exited" /\ files = {})
    /\ []((Terminated /\ last.op # "none" /\ last.raised # NoErr) => mpc = "exited")
    /\ <>Terminated

\* main wrote the archive of a recording asked for as 'numpy' or 'npz'
C10_Witness ==
    /\ mpc = "returned" /\ exit_status = 0
    /\ output_format \in {"numpy", "npz"}
    /\ files = {APath(cwd, <<"rec">>, "npz")}

====
